---------------------------- MODULE Spec2Model ----------------------------
(***************************************************************************)
(* Model of generate_commit_days.py: the aggregation of the contribution   *)
(* calendar (fetch_contribution_days), the elapsed-day computation         *)
(* (calculate_days_elapsed), the badge renderer (generate_svg) and the     *)
(* pipeline of main.  The module is either run as a script (main runs) or  *)
(* imported, in which case its three functions are called directly.        *)
(***************************************************************************)
EXTENDS Integers, Sequences, FiniteSets, TLC

VARIABLES
    clock,                \* the UTC wall clock: [date |-> <<y, m, d>>, minute |-> 0..1439]
    ticks,                \* minutes passed since the start of the behaviour
    runAs,                \* "script" (__name__ == "__main__") or "module" (imported)
    YEAR,                 \* module-level YEAR
    GITHUB_TOKEN,         \* TRUE iff the environment holds a token
    pc,                   \* position of main
    days_with_activity,   \* main's locals
    total_contributions,
    days_elapsed,
    svg_content,
    outfile,              \* content of commit-activity.svg
    writes,               \* completed writes of the output file
    posts,                \* HTTP requests issued
    exit_status,          \* -1 while running, then the exit status of the process
    log,                  \* the steps main has completed, in order
    call,                 \* module use: the last direct call, its arguments and result
    prev                  \* module use: the call before it, when it was repeated

vars == <<clock, ticks, runAs, YEAR, GITHUB_TOKEN, pc, days_with_activity,
          total_contributions, days_elapsed, svg_content, outfile, writes, posts,
          exit_status, log, call, prev>>

mainVars == <<pc, days_with_activity, total_contributions, days_elapsed, svg_content,
              outfile, writes, posts, exit_status, log>>

callVars == <<call, prev>>

---------------------------------------------------------------------------
(* Bounds of the model *)

MaxTicks == 2          \* minutes that pass during one behaviour
MaxDays == 2           \* contributionDays in one response
MaxActiveArg == 4      \* largest days_with_activity passed to generate_svg directly
MaxElapsedArg == 5     \* largest days_elapsed passed to generate_svg directly

---------------------------------------------------------------------------
(* datetime.date: the proleptic Gregorian calendar *)

IsLeap(y) == y % 4 = 0 /\ (y % 100 # 0 \/ y % 400 = 0)

DaysInMonth(y, m) ==
    IF m = 2 THEN (IF IsLeap(y) THEN 29 ELSE 28)
    ELSE IF m \in {4, 6, 9, 11} THEN 30 ELSE 31

RECURSIVE DaysBeforeMonth(_, _)
DaysBeforeMonth(y, m) ==
    IF m <= 1 THEN 0 ELSE DaysBeforeMonth(y, m - 1) + DaysInMonth(y, m - 1)

DaysBeforeYear(y) ==
    (y - 1) * 365 + ((y - 1) \div 4) - ((y - 1) \div 100) + ((y - 1) \div 400)

ToOrdinal(dt) == DaysBeforeYear(dt[1]) + DaysBeforeMonth(dt[1], dt[2]) + dt[3]

\* (a - b).days
DateSubDays(a, b) == ToOrdinal(a) - ToOrdinal(b)

\* a > b on dates
DateGT(a, b) ==
    \/ a[1] > b[1]
    \/ a[1] = b[1] /\ a[2] > b[2]
    \/ a[1] = b[1] /\ a[2] = b[2] /\ a[3] > b[3]

\* the day after dt
NextDay(dt) ==
    IF dt[3] < DaysInMonth(dt[1], dt[2]) THEN <<dt[1], dt[2], dt[3] + 1>>
    ELSE IF dt[2] < 12 THEN <<dt[1], dt[2] + 1, 1>>
    ELSE <<dt[1] + 1, 1, 1>>

\* datetime.strptime(s, "%Y-%m-%d").date(): s is the text "YYYY-MM-DD", held as
\* its three numeric fields; a month or day out of range raises ValueError
StrpDate(s) ==
    IF s[2] \in 1..12 /\ s[3] >= 1 /\ s[3] <= DaysInMonth(s[1], s[2])
    THEN [raised |-> FALSE, date |-> s]
    ELSE [raised |-> TRUE]

MonthAbbr == <<"Jan", "Feb", "Mar", "Apr", "May", "Jun",
               "Jul", "Aug", "Sep", "Oct", "Nov", "Dec">>

\* now.strftime("%b %d, %Y %H:%M UTC")
Strftime(now) ==
    [b |-> MonthAbbr[now.date[2]], d |-> now.date[3], Y |-> now.date[1],
     H |-> now.minute \div 60, M |-> now.minute % 60]

---------------------------------------------------------------------------
(* fetch_contribution_days *)

\* day.get(key, default)
Get(day, key, default) == IF key \in DOMAIN day THEN day[key] ELSE default

\* LoopBody with the cutoff written "day_date >= today_utc"
LoopBody_SkipsToday(day, today_utc, acc) ==
    LET parsed == StrpDate(day["date"]) IN
    IF acc.raised THEN acc
    ELSE IF parsed.raised THEN [acc EXCEPT !.raised = TRUE]
    ELSE IF ~DateGT(today_utc, parsed.date) THEN acc
    ELSE LET level == Get(day, "contributionLevel", "NONE") IN
         [raised |-> FALSE,
          days_with_activity |->
              IF level # "NONE" THEN acc.days_with_activity + 1
              ELSE acc.days_with_activity,
          total_contributions |->
              acc.total_contributions + Get(day, "contributionCount", 0)]

\* One pass of the inner loop body for one contributionDay
LoopBody(day, today_utc, acc) ==
    LET parsed == StrpDate(day["date"]) IN
    IF acc.raised THEN acc
    ELSE IF parsed.raised THEN [acc EXCEPT !.raised = TRUE]
    ELSE IF DateGT(parsed.date, today_utc) THEN acc
    ELSE LET level == Get(day, "contributionLevel", "NONE") IN
         [raised |-> FALSE,
          days_with_activity |->
              IF level # "NONE" THEN acc.days_with_activity + 1
              ELSE acc.days_with_activity,
          total_contributions |->
              acc.total_contributions + Get(day, "contributionCount", 0)]

RECURSIVE LoopDays(_, _, _)
LoopDays(days, today_utc, acc) ==
    IF days = <<>> THEN acc
    ELSE LoopDays(Tail(days), today_utc, LoopBody(Head(days), today_utc, acc))

RECURSIVE LoopWeeks(_, _, _)
LoopWeeks(weeks, today_utc, acc) ==
    IF weeks = <<>> THEN acc
    ELSE LoopWeeks(Tail(weeks), today_utc,
                   LoopDays(Head(weeks).contributionDays, today_utc, acc))

\* resp is the outcome of requests.post: a transport or HTTP error, a GraphQL
\* "errors" payload, a payload without the calendar (the lookup of "weeks" raises),
\* or the weeks of the contribution calendar
fetch_contribution_days(resp, today_utc) ==
    IF resp.kind = "http_error" THEN [raised |-> TRUE]
    ELSE IF resp.kind = "graphql_errors" THEN [raised |-> TRUE]
    ELSE IF resp.kind = "malformed" THEN [raised |-> TRUE]
    ELSE LoopWeeks(resp.weeks, today_utc,
                   [raised |-> FALSE, days_with_activity |-> 0,
                    total_contributions |-> 0])

---------------------------------------------------------------------------
(* calculate_days_elapsed *)

\* calculate_days_elapsed with the century rule left out of the full-year branch
calculate_days_elapsed_NoCentury(year, today) ==
    IF today[1] = year THEN DateSubDays(today, <<year, 1, 1>>) + 1
    ELSE IF today[1] > year
         THEN (IF year % 4 = 0 THEN 366 ELSE 365)
         ELSE 0

calculate_days_elapsed(year, today) ==
    IF today[1] = year THEN DateSubDays(today, <<year, 1, 1>>) + 1
    ELSE IF today[1] > year
         THEN (IF year % 4 = 0 /\ (year % 100 # 0 \/ year % 400 = 0) THEN 366 ELSE 365)
         ELSE 0

---------------------------------------------------------------------------
(* generate_svg *)

GREEN == "#3fb950"
GOLD == "#d29922"
RED == "#f85149"

GreenFrom == 85        \* consistency >= 85
GoldFrom == 60         \* consistency >= 60
radius == 54
PiE5 == 314159         \* 3.14159, in units of 10^-5

\* consistency = (days_with_activity / days_elapsed * 100) if days_elapsed > 0 else 0,
\* held as the fraction num / den with den > 0
Consistency(days, elapsed) ==
    IF elapsed > 0 THEN [num |-> days * 100, den |-> elapsed]
    ELSE [num |-> 0, den |-> 1]

AccentColor(c) ==
    IF c.num >= GreenFrom * c.den THEN GREEN
    ELSE IF c.num >= GoldFrom * c.den THEN GOLD
    ELSE RED

\* int(consistency): truncation toward zero
IntOf(c) == IF c.num >= 0 THEN c.num \div c.den ELSE 0 - ((0 - c.num) \div c.den)

\* circumference = 2 * 3.14159 * radius, in units of 10^-5
CircumferenceE5 == 2 * PiE5 * radius

\* "{x:.1f}" of x = nE5 / (den * 10^5): the number of tenths nearest to x
Fmt1f(nE5, den) == (((nE5 \div den) + 5000) \div 10000)

\* progress = (consistency / 100) * circumference, in units of 10^-5 over c.den;
\* c.num is 100 * days_with_activity (or 0), so consistency / 100 is (c.num / 100) / c.den
ProgressE5(c) == (c.num \div 100) * CircumferenceE5

\* "{n:,}": the digit groups of n, most significant first
RECURSIVE Groups(_)
Groups(n) == IF n < 1000 THEN <<n>> ELSE Append(Groups(n \div 1000), n % 1000)

FmtThousands(n) == [neg |-> n < 0, groups |-> Groups(IF n < 0 THEN 0 - n ELSE n)]

\* now is the value datetime.now(timezone.utc) returns inside the function
generate_svg(days, total, elapsed, year, now) ==
    LET consistency == Consistency(days, elapsed) IN
    [accent_color |-> AccentColor(consistency),
     r |-> radius,
     dasharray |-> <<Fmt1f(ProgressE5(consistency), consistency.den),
                     Fmt1f(CircumferenceE5, 1)>>,
     label |-> IntOf(consistency),
     heading_year |-> year,
     active_line |-> <<days, elapsed>>,
     total_line |-> FmtThousands(total),
     last_updated |-> Strftime(now)]

---------------------------------------------------------------------------
(* The inputs: what the clock reads when the process starts, the responses *)
(* of the GraphQL endpoint, and the arguments of direct calls              *)

InitDates == {<<2025, 12, 31>>, <<2026, 1, 1>>, <<2026, 3, 2>>,
              <<2028, 3, 1>>, <<2028, 12, 31>>, <<2101, 1, 1>>}

InitMinutes == {720, 1439}

Years == {0 - 1, 2000, 2026, 2028, 2100}

\* the "date" texts of a response; 2026-02-30 is not a date
DayDates == {<<2025, 12, 31>>, <<2026, 1, 1>>, <<2026, 2, 30>>, <<2026, 3, 2>>}

\* a contributionDay with and without its contributionLevel key
DayCandidates ==
    {[date |-> dt, contributionCount |-> n, contributionLevel |-> lv] :
        dt \in DayDates \ {<<2026, 2, 30>>}, n \in {0, 5},
        lv \in {"NONE", "FIRST_QUARTILE"}}
    \cup {[date |-> dt, contributionCount |-> n] :
        dt \in DayDates \ {<<2026, 2, 30>>}, n \in {0, 5}}
    \cup {[date |-> <<2026, 1, 1>>, contributionCount |-> 0 - 1,
           contributionLevel |-> "FIRST_QUARTILE"],
          [date |-> <<2026, 2, 30>>, contributionCount |-> 5,
           contributionLevel |-> "FIRST_QUARTILE"],
          [date |-> <<2026, 3, 2>>, contributionLevel |-> "FIRST_QUARTILE"]}

\* the days of a calendar, in calendar order, one per date
DaySeqs ==
    UNION {{s \in [1..n -> DayCandidates] :
               \A i \in 1..(n - 1) : DateGT(s[i + 1].date, s[i].date)} :
           n \in 0..MaxDays}

\* the days of a calendar cut into two weeks: an empty week and a full one, or
\* two halves
WeeksOf(s) ==
    {<<[contributionDays |-> SubSeq(s, 1, k)],
       [contributionDays |-> SubSeq(s, k + 1, Len(s))]>> : k \in {0, Len(s) \div 2}}

Responses ==
    {[kind |-> "http_error"], [kind |-> "graphql_errors"], [kind |-> "malformed"],
     [kind |-> "ok", weeks |-> <<>>]}
    \cup {[kind |-> "ok", weeks |-> w] : w \in UNION {WeeksOf(s) : s \in DaySeqs}}

ActiveArgs == ((0 - 1)..MaxActiveArg) \cup {25}
ElapsedArgs == ((0 - 1)..MaxElapsedArg) \cup {31}
TotalArgs == {0, 1234567}

---------------------------------------------------------------------------
(* The state machine *)

NoCall == [fn |-> "none"]
NoSvg == [none |-> TRUE]
OldFile == [state |-> "old"]

Init ==
    /\ clock \in [date : InitDates, minute : InitMinutes]
    /\ ticks = 0
    /\ runAs \in {"script", "module"}
    /\ YEAR = clock.date[1]
    /\ GITHUB_TOKEN \in BOOLEAN
    /\ pc = IF runAs = "script" THEN "start" ELSE "imported"
    /\ days_with_activity = 0
    /\ total_contributions = 0
    /\ days_elapsed = 0
    /\ svg_content = NoSvg
    /\ outfile = OldFile
    /\ writes = 0
    /\ posts = 0
    /\ exit_status = 0 - 1
    /\ log = <<>>
    /\ call = NoCall
    /\ prev = NoCall

\* A minute passes.  Time is followed while something can still read the clock:
\* until the process exits, or until a direct call other than the repeatable
\* generate_svg has returned.
Tick ==
    /\ ticks < MaxTicks
    /\ exit_status = 0 - 1
    /\ call.fn \in {"none", "generate_svg"}
    /\ ticks' = ticks + 1
    /\ clock' = IF clock.minute < 1439
                THEN [clock EXCEPT !.minute = clock.minute + 1]
                ELSE [date |-> NextDay(clock.date), minute |-> 0]
    /\ UNCHANGED <<runAs, YEAR, GITHUB_TOKEN, mainVars, callVars>>

\* sys.exit(1), from the token check or from the except clause
Exit1 ==
    /\ exit_status' = 1
    /\ pc' = "done"

\* main_CheckToken without the sys.exit(1): main goes on without a token
main_CheckToken_NoExit ==
    /\ pc = "start"
    /\ pc' = "token_ok"
    /\ log' = Append(log, "token")
    /\ UNCHANGED <<days_with_activity, total_contributions, days_elapsed, svg_content,
                   outfile, writes, posts, exit_status>>
    /\ UNCHANGED <<clock, ticks, runAs, YEAR, GITHUB_TOKEN, callVars>>

\* main: if not GITHUB_TOKEN: print(...); sys.exit(1)
main_CheckToken ==
    /\ pc = "start"
    /\ IF GITHUB_TOKEN
       THEN /\ pc' = "token_ok"
            /\ log' = Append(log, "token")
            /\ UNCHANGED exit_status
       ELSE /\ Exit1
            /\ UNCHANGED log
    /\ UNCHANGED <<days_with_activity, total_contributions, days_elapsed, svg_content,
                   outfile, writes, posts>>
    /\ UNCHANGED <<clock, ticks, runAs, YEAR, GITHUB_TOKEN, callVars>>

\* main: days_with_activity, total_contributions = fetch_contribution_days(...)
main_Fetch ==
    /\ pc = "token_ok"
    /\ \E resp \in Responses :
         LET r == fetch_contribution_days(resp, clock.date) IN
         /\ posts' = posts + 1
         /\ IF r.raised
            THEN /\ Exit1
                 /\ UNCHANGED <<days_with_activity, total_contributions, log>>
            ELSE /\ days_with_activity' = r.days_with_activity
                 /\ total_contributions' = r.total_contributions
                 /\ pc' = "fetched"
                 /\ log' = Append(log, "fetch")
                 /\ UNCHANGED exit_status
    /\ UNCHANGED <<days_elapsed, svg_content, outfile, writes>>
    /\ UNCHANGED <<clock, ticks, runAs, YEAR, GITHUB_TOKEN, callVars>>

\* main: days_elapsed = calculate_days_elapsed(YEAR)
main_Elapsed ==
    /\ pc = "fetched"
    /\ days_elapsed' = calculate_days_elapsed(YEAR, clock.date)
    /\ pc' = "elapsed"
    /\ log' = Append(log, "elapsed")
    /\ UNCHANGED <<days_with_activity, total_contributions, svg_content, outfile,
                   writes, posts, exit_status>>
    /\ UNCHANGED <<clock, ticks, runAs, YEAR, GITHUB_TOKEN, callVars>>

\* main: svg_content = generate_svg(...)
main_Generate ==
    /\ pc = "elapsed"
    /\ svg_content' = generate_svg(days_with_activity, total_contributions,
                                   days_elapsed, YEAR, clock)
    /\ pc' = "generated"
    /\ log' = Append(log, "svg")
    /\ UNCHANGED <<days_with_activity, total_contributions, days_elapsed, outfile,
                   writes, posts, exit_status>>
    /\ UNCHANGED <<clock, ticks, runAs, YEAR, GITHUB_TOKEN, callVars>>

\* main: with open(OUTFILE, "w") as f: f.write(svg_content)
\* open may fail (the file is untouched), write may fail (the file was truncated)
main_Write ==
    /\ pc = "generated"
    /\ \E io \in {"ok", "open_fails", "write_fails"} :
         IF io = "ok"
         THEN /\ outfile' = [state |-> "written", content |-> svg_content]
              /\ writes' = writes + 1
              /\ log' = Append(log, "write")
              /\ exit_status' = 0
              /\ pc' = "done"
         ELSE /\ outfile' = IF io = "open_fails" THEN outfile ELSE [state |-> "truncated"]
              /\ Exit1
              /\ UNCHANGED <<writes, log>>
    /\ UNCHANGED <<days_with_activity, total_contributions, days_elapsed, svg_content,
                   posts>>
    /\ UNCHANGED <<clock, ticks, runAs, YEAR, GITHUB_TOKEN, callVars>>

\* The module was imported and one of its functions is called; a behaviour follows
\* one direct call (and its repetitions) at whatever time it is made.
\* fetch_contribution_days(username, year, token)
CallFetch ==
    /\ runAs = "module"
    /\ call = NoCall
    /\ \E year \in Years, resp \in Responses :
         call' = [fn |-> "fetch_contribution_days", year |-> year, resp |-> resp,
                  today |-> clock.date,
                  out |-> fetch_contribution_days(resp, clock.date),
                  raised |-> fetch_contribution_days(resp, clock.date).raised]
    /\ prev' = NoCall
    /\ UNCHANGED <<clock, ticks, runAs, YEAR, GITHUB_TOKEN, mainVars>>

\* calculate_days_elapsed(year); nothing in it raises: date(year, 1, 1) is built
\* only when year is the clock's year
CallElapsed ==
    /\ runAs = "module"
    /\ call = NoCall
    /\ \E year \in Years :
         call' = [fn |-> "calculate_days_elapsed", year |-> year, today |-> clock.date,
                  out |-> calculate_days_elapsed(year, clock.date),
                  raised |-> FALSE]
    /\ prev' = NoCall
    /\ UNCHANGED <<clock, ticks, runAs, YEAR, GITHUB_TOKEN, mainVars>>

\* generate_svg(days_with_activity, total_contributions, days_elapsed, year);
\* it checks none of its arguments and always returns the markup
CallGenerate ==
    /\ runAs = "module"
    /\ call = NoCall
    /\ \E d \in ActiveArgs, t \in TotalArgs, e \in ElapsedArgs, y \in Years :
         call' = [fn |-> "generate_svg", days |-> d, total |-> t, elapsed |-> e,
                  year |-> y, now |-> clock,
                  out |-> generate_svg(d, t, e, y, clock),
                  raised |-> FALSE]
    /\ prev' = NoCall
    /\ UNCHANGED <<clock, ticks, runAs, YEAR, GITHUB_TOKEN, mainVars>>

\* generate_svg called once more with the arguments of the last call
RepeatGenerate ==
    /\ runAs = "module"
    /\ call.fn = "generate_svg"
    /\ prev' = call
    /\ call' = [call EXCEPT !.now = clock,
                            !.out = generate_svg(call.days, call.total, call.elapsed,
                                                 call.year, clock)]
    /\ UNCHANGED <<clock, ticks, runAs, YEAR, GITHUB_TOKEN, mainVars>>

Next ==
    \/ Tick
    \/ main_CheckToken
    \/ main_Fetch
    \/ main_Elapsed
    \/ main_Generate
    \/ main_Write
    \/ CallFetch
    \/ CallElapsed
    \/ CallGenerate
    \/ RepeatGenerate

Spec == Init /\ [][Next]_vars

---------------------------------------------------------------------------
(* Vocabulary of the properties *)

\* the contributionDays of a response, in order
RECURSIVE FlatDays(_)
FlatDays(weeks) ==
    IF weeks = <<>> THEN <<>>
    ELSE Head(weeks).contributionDays \o FlatDays(Tail(weeks))

OneWeek(days) == [kind |-> "ok", weeks |-> <<[contributionDays |-> days]>>]

RECURSIVE SumOfCounts(_)
SumOfCounts(days) ==
    IF days = <<>> THEN 0
    ELSE Get(Head(days), "contributionCount", 0) + SumOfCounts(Tail(days))

DaysNotAfter(days, today) == SelectSeq(days, LAMBDA day : ~DateGT(day.date, today))
DaysInYear(days, year) == SelectSeq(days, LAMBDA day : day.date[1] = year)
HasLevel(day) == "contributionLevel" \in DOMAIN day

IsFetchCall == call.fn = "fetch_contribution_days" /\ call.resp.kind = "ok"
                  /\ ~call.raised
IsElapsedCall == call.fn = "calculate_days_elapsed"
IsGenerateCall == call.fn = "generate_svg"
CallDays == FlatDays(call.resp.weeks)

---------------------------------------------------------------------------
(* C1: calculate_days_elapsed returns the day of the year of the as-of date *)
(* when the as-of date lies in the target year, the length of the year     *)
(* (366 exactly for years divisible by 4 and not by 100, or by 400; 365    *)
(* otherwise) when it lies in a later year, and 0 when it lies in an       *)
(* earlier year.                                                           *)

C1_Leap(y) == y % 4 = 0 /\ (y % 100 # 0 \/ y % 400 = 0)

C1_MonthLengths(y) ==
    <<31, IF C1_Leap(y) THEN 29 ELSE 28, 31, 30, 31, 30, 31, 31, 30, 31, 30, 31>>

\* the number of days of the year of dt that are not after dt
C1_DayOfYear(dt) ==
    Cardinality({md \in (1..12) \X (1..31) :
                    /\ md[2] <= C1_MonthLengths(dt[1])[md[1]]
                    /\ (md[1] < dt[2] \/ (md[1] = dt[2] /\ md[2] <= dt[3]))})

\* C1: the elapsed days of every direct call are as stated
C1_ElapsedDays ==
    IsElapsedCall =>
        /\ call.today[1] = call.year => call.out = C1_DayOfYear(call.today)
        /\ call.today[1] > call.year =>
              /\ call.out = IF C1_Leap(call.year) THEN 366 ELSE 365
              /\ call.year = 2028 => call.out = 366
              /\ call.year = 2026 => call.out = 365
              /\ call.year = 2100 => call.out = 365
              /\ call.year = 2000 => call.out = 366
        /\ call.today[1] < call.year => call.out = 0

C1_Witness ==
    IsElapsedCall /\ call.year = 2028 /\ call.today = <<2028, 3, 1>> /\ call.out = 61

---------------------------------------------------------------------------
(* C3: a record dated after the as-of date adds nothing to either          *)
(* aggregate: the aggregates are those of the response without such        *)
(* records, the total is the sum of the counts of the records dated on or  *)
(* before the as-of date, and a record dated on the as-of date is counted. *)

\* C3: records after the as-of date are left out of both aggregates
C3_FutureExcluded ==
    IsFetchCall =>
        LET kept == DaysNotAfter(CallDays, call.today) IN
        /\ call.out = fetch_contribution_days(OneWeek(kept), call.today)
        /\ call.out.total_contributions = SumOfCounts(kept)
        /\ call.out.days_with_activity =
               Len(SelectSeq(kept, LAMBDA day :
                          Get(day, "contributionLevel", "NONE") # "NONE"))
        /\ kept = <<>> =>
               call.out.days_with_activity = 0 /\ call.out.total_contributions = 0

C3_Witness ==
    /\ IsFetchCall
    /\ Len(CallDays) = 2
    /\ CallDays[1].date = call.today
    /\ DateGT(CallDays[2].date, call.today)
    /\ HasLevel(CallDays[1]) /\ CallDays[1].contributionLevel = "FIRST_QUARTILE"
    /\ HasLevel(CallDays[2]) /\ CallDays[2].contributionLevel = "FIRST_QUARTILE"
    /\ Get(CallDays[1], "contributionCount", 0) = 5
    /\ Get(CallDays[2], "contributionCount", 0) = 5
    /\ call.out.days_with_activity = 1
    /\ call.out.total_contributions = 5

---------------------------------------------------------------------------
(* C10: main writes the output file at most once, and only after the token *)
(* was found, the fetch returned, the elapsed days were computed and the   *)
(* markup was generated, in that order; without a token it exits with      *)
(* status 1 and issues no request; a failure before the write exits with   *)
(* status 1 and leaves the file untouched; a run ends either with the file *)
(* written or with exit status 1, never both, and never gets stuck.        *)

C10_Steps == <<"token", "fetch", "elapsed", "svg", "write">>

---------------------------------------------------------------------------
(* C2: whatever records the data source returns, the summary has           *)
(* activeDays <= elapsedDays, so the consistency lies in [0, 100], and it  *)
(* is exactly 0 when elapsedDays is 0.                                     *)

\* C2: once main has the elapsed days, activeDays <= elapsedDays and the
\* percentage lies in [0, 100]
C2_ConsistencyInRange ==
    (Len(log) >= 3 /\ total_contributions >= 0) =>
        LET c == Consistency(days_with_activity, days_elapsed) IN
        /\ days_with_activity <= days_elapsed
        /\ 0 <= c.num /\ c.num <= 100 * c.den
        /\ days_elapsed = 0 => c.num = 0

---------------------------------------------------------------------------
(* C4: records dated outside the target year are excluded: the aggregates  *)
(* equal those of the records of the target year alone.                    *)

\* C4: the aggregates of a call are those of the records of its year
C4_OutOfYearExcluded ==
    (IsFetchCall /\ call.year >= 0) =>
        call.out = fetch_contribution_days(OneWeek(DaysInYear(CallDays, call.year)),
                                           call.today)

---------------------------------------------------------------------------
(* C5: a counted record with a categorical level is active iff the level   *)
(* is not "NONE"; a counted record without one is active iff its count is  *)
(* positive; the total sums the counts of all counted records.             *)

C5_Active(day) ==
    IF HasLevel(day) THEN day.contributionLevel # "NONE"
    ELSE Get(day, "contributionCount", 0) > 0

\* the response holds only records of the target year with counts >= 0
C5_ValidRecords ==
    /\ IsFetchCall
    /\ call.year >= 0
    /\ \A i \in DOMAIN CallDays :
          /\ CallDays[i].date[1] = call.year
          /\ Get(CallDays[i], "contributionCount", 0) >= 0

\* C5: the active days of a call follow the level, or the count when no level
\* is present
C5_ActiveDerivation ==
    C5_ValidRecords =>
        LET counted == DaysNotAfter(CallDays, call.today) IN
        /\ call.out.days_with_activity = Len(SelectSeq(counted, C5_Active))
        /\ call.out.total_contributions = SumOfCounts(counted)

---------------------------------------------------------------------------
(* C6: the accent colour is green exactly when the consistency is at least *)
(* 80 and gold exactly when it lies in [60, 80).                           *)

C6_ValidArgs == IsGenerateCall /\ call.elapsed > 0 /\ 0 <= call.days
                   /\ call.days <= call.elapsed /\ call.year >= 0

\* C6: green from 80, gold in [60, 80)
C6_TierColour ==
    C6_ValidArgs =>
        LET pct100 == 100 * call.days IN
        /\ call.out.accent_color = GREEN <=> pct100 >= 80 * call.elapsed
        /\ call.out.accent_color = GOLD <=>
               (pct100 >= 60 * call.elapsed /\ pct100 < 80 * call.elapsed)

---------------------------------------------------------------------------
(* C7: a negative year or a negative count makes the aggregation fail, and *)
(* a negative elapsedDays or a consistency outside [0, 100] makes the      *)
(* rendering fail: no summary and no markup is returned.                   *)

\* C7: a call with an invalid statistical input raises
C7_InvalidInputRejected ==
    /\ (call.fn = "fetch_contribution_days" /\ call.resp.kind = "ok"
          /\ \E i \in DOMAIN CallDays : Get(CallDays[i], "contributionCount", 0) < 0)
       => call.raised
    /\ (IsElapsedCall /\ call.year < 0) => call.raised
    /\ (IsGenerateCall
          /\ (call.elapsed < 0
                \/ (call.elapsed > 0 /\ (call.days < 0 \/ call.days > call.elapsed))))
       => call.raised

---------------------------------------------------------------------------
(* C8: two calls of the renderer with the same arguments return the same   *)
(* markup, whatever the clock reads at each call.                          *)

\* C8: a repeated call of generate_svg returns what the call before it returned
C8_RenderDeterministic ==
    (IsGenerateCall /\ prev.fn = "generate_svg") => call.out = prev.out

---------------------------------------------------------------------------
(* C9: the percentage label is the consistency rounded to the nearest      *)
(* integer, halves rounded up.                                             *)

\* C9: the label is round-half-up of 100 * days / elapsed
C9_LabelRounded ==
    C6_ValidArgs => call.out.label = (200 * call.days + call.elapsed) \div (2 * call.elapsed)

=============================================================================
